---- MODULE Spec2Model ----
(***************************************************************************)
(* Attendance check-in component (AttendanceApp.jsx).  The file holds two  *)
(* revisions of the record-store-backed component: revision 1 (lines       *)
(* 123-875, trusted time only) and revision 2 (lines 1071-1949, cached /   *)
(* device-clock time, hybrid selfie upload, default coordinates).  The     *)
(* variable rev says which of the two is running; it never changes.        *)
(*                                                                         *)
(* React state is one variable per useState cell.  Every asynchronous      *)
(* handler is cut at its awaits: the part before the first await is the    *)
(* action of the event, each later part is the action of the response it   *)
(* waits for.  The effects that React runs after a commit (clock render,   *)
(* state resolver, action reselect) are applied inside every action by     *)
(* Commit, in declaration order, until nothing changes.                    *)
(***************************************************************************)
EXTENDS Integers, Sequences, FiniteSets, TLC

----------------------------------------------------------------------------
(* Bounds of the model *)

MaxSubmits == 2
MaxPeerWrites == 1
MaxSyncRuns == 1
MaxPerf == 1
MaxGeos == 2
MaxOneshots == 1
MaxCacheMs == 4

(* Scale of the clock: a day has DayMs time units *)
DayMs == 2
ServerEpoch0 == 2

Revisions == {1, 2}
Offices == {"o1"}
Employees == {"e1"}
Fixes == {1}
MovingFixes == {1, 2}
WallBases == {ServerEpoch0, ServerEpoch0 + DayMs}

NoId == ""
NULL == "null"
DASH == -1
NoMs == -1
NoPos == 0
NoAddr == 0
DefaultPos == 23
DefaultNote == 99
EMPTY == <<>>
NoRec == [id |-> 0]
NoCache == [serverEpochMs |-> NoMs, savedAtMs |-> NoMs]
CacheInits == {NoCache, [serverEpochMs |-> 0, savedAtMs |-> 0]}

AllTypes == {"checkin", "checkout", "lunchStart", "lunchEnd"}

VARIABLES
  rev,            \* which revision of the component runs
  ESPO_BASEURL,   \* TRUE iff VITE_ESPO_BASEURL is set
  ESPO_API_KEY,   \* TRUE iff VITE_X_API_KEY is set
  perf,           \* performance.now()
  wallBase,       \* device wall clock = wallBase + perf
  cache,          \* localStorage TIME_SYNC_CACHE_V1 (revision 2)
  staff,          \* the employees the record store lists for the office
  offices,        \* office list loaded from the record store
  orgLoading,
  officeId, employeeId, type, lastAction,
  isTimeFrozen, isLocationFrozen,
  timeSync, isTimeReady, dateStr, timeStr,
  lat, lng, address, frozenLat, frozenLng, frozenAddress,
  lastGeoReqRef,  \* id of the newest reverse-geocode request
  geos,           \* reverse-geocode requests of the position watch in flight, in
                  \* the order of their fixes; superseded: a later fix has come in
  oneshots,       \* one-shot position requests of freezeLocationNow in flight
  selfieFile,
  modal,
  resolver,       \* the resolver query in flight that is not cancelled
  syncs,          \* syncKolkataTime runs in flight
  submits,        \* onSubmit invocations waiting for a response
  nextSid,        \* number of uploads started so far (attachment ids)
  records,        \* the remote record store, in creation order
  peerCount,      \* writes of a second session on another device
  acked           \* history: the successes the dialog has announced, each with
                  \* the number of uploads started when it did

uiVars == <<officeId, employeeId, type, lastAction, isTimeFrozen, isLocationFrozen,
            timeSync, isTimeReady, dateStr, timeStr, lat, lng, address,
            frozenLat, frozenLng, frozenAddress, selfieFile, modal, resolver>>
locVars == <<lastGeoReqRef, geos, oneshots>>
envVars == <<rev, ESPO_BASEURL, ESPO_API_KEY, perf, wallBase, cache, staff>>
vars == <<envVars, offices, orgLoading, uiVars, locVars, syncs, submits, nextSid, records,
          peerCount, acked>>

----------------------------------------------------------------------------
(* Pure helpers *)

\* Intl formatter: the date is the day number, the time the offset in the day
istDateTimeParts(ms) == [date |-> ms \div DayMs, time |-> ms % DayMs]

DeviceNow == wallBase + perf
ServerNow == ServerEpoch0 + perf

NoSync == [serverEpochMs |-> NoMs, perfAtSync |-> NoMs]

\* variant: the time since the sync is measured on the device clock
getTrustedNowOfWall(ts) ==
  IF ts.serverEpochMs = NoMs \/ ts.perfAtSync = NoMs THEN NoMs
  ELSE ts.serverEpochMs + (DeviceNow - ts.perfAtSync)

getTrustedNowOf(ts) ==
  IF ts.serverEpochMs = NoMs \/ ts.perfAtSync = NoMs THEN NoMs
  ELSE ts.serverEpochMs + (perf - ts.perfAtSync)

getTrustedNow == getTrustedNowOf(timeSync)

\* variant: clamp without its lower bound
clampBelowOnly(n, min, max) == IF max < n THEN max ELSE n

clamp(n, min, max) ==
  LET lo == IF max < n THEN max ELSE n IN IF min > lo THEN min ELSE lo

fieldByType(t) ==
  CASE t = "checkin" -> "checkInAt"
    [] t = "checkout" -> "checkOutAt"
    [] t = "lunchStart" -> "lunchOutAt"
    [] t = "lunchEnd" -> "lunchInAt"

\* variant: the check-in time is tested first
computeLastActionCheckInFirst(rec) ==
  IF rec = NoRec THEN NULL
  ELSE IF rec.checkInAt # EMPTY THEN "checkin"
  ELSE IF rec.checkOutAt # EMPTY THEN "checkout"
  ELSE IF rec.lunchInAt # EMPTY THEN "lunchEnd"
  ELSE IF rec.lunchOutAt # EMPTY THEN "lunchStart"
  ELSE NULL

computeLastActionFromRecord(rec) ==
  IF rec = NoRec THEN NULL
  ELSE IF rec.checkOutAt # EMPTY THEN "checkout"
  ELSE IF rec.lunchInAt # EMPTY THEN "lunchEnd"
  ELSE IF rec.lunchOutAt # EMPTY THEN "lunchStart"
  ELSE IF rec.checkInAt # EMPTY THEN "checkin"
  ELSE NULL

\* variant: no check-out while on lunch
allowedTypesLunchFirst(off, emp, last) ==
  IF off = NoId \/ emp = NoId THEN <<>>
  ELSE IF last = NULL THEN <<"checkin">>
  ELSE IF last = "checkin" THEN <<"lunchStart", "checkout">>
  ELSE IF last = "lunchStart" THEN <<"lunchEnd">>
  ELSE IF last = "lunchEnd" THEN <<"checkout">>
  ELSE <<>>

allowedTypesOf(off, emp, last) ==
  IF off = NoId \/ emp = NoId THEN <<>>
  ELSE IF last = NULL THEN <<"checkin">>
  ELSE IF last = "checkin" THEN <<"lunchStart", "checkout">>
  ELSE IF last = "lunchStart" THEN <<"lunchEnd", "checkout">>
  ELSE IF last = "lunchEnd" THEN <<"checkout">>
  ELSE <<>>

allowedTypes == allowedTypesOf(officeId, employeeId, lastAction)

Includes(seq, x) == \E i \in 1..Len(seq) : seq[i] = x

\* query by employee and date, newest first, limited to one
RECURSIVE LatestIdx(_, _, _, _)
LatestIdx(recs, emp, date, i) ==
  IF i = 0 THEN 0
  ELSE IF recs[i].employeeName = emp /\ recs[i].attendanceDate = date THEN i
  ELSE LatestIdx(recs, emp, date, i - 1)

findTodayRecord(emp, date) ==
  LET i == LatestIdx(records, emp, date, Len(records))
  IN IF i = 0 THEN NoRec ELSE records[i]

----------------------------------------------------------------------------
(* The React state of the component and the effects run after each commit *)

NoModal == [open |-> FALSE, message |-> <<"", "">>, refreshOnOk |-> FALSE]
NoResolver == [employeeName |-> NoId, attendanceDate |-> DASH]

Cur ==
  [officeId |-> officeId, employeeId |-> employeeId, type |-> type,
   lastAction |-> lastAction, isTimeFrozen |-> isTimeFrozen,
   isLocationFrozen |-> isLocationFrozen, timeSync |-> timeSync,
   isTimeReady |-> isTimeReady, dateStr |-> dateStr, timeStr |-> timeStr,
   lat |-> lat, lng |-> lng, address |-> address, frozenLat |-> frozenLat,
   frozenLng |-> frozenLng, frozenAddress |-> frozenAddress,
   selfieFile |-> selfieFile, modal |-> modal, resolver |-> resolver,
   timeSyncSet |-> FALSE]

openModal(u, kind, detail, refreshOnOk) ==
  [u EXCEPT !.modal = [open |-> TRUE, message |-> <<kind, detail>>,
                       refreshOnOk |-> refreshOnOk]]

\* closeModal keeps title, message and refreshOnOk of the closed dialog; a closed
\* dialog renders nothing and every openModal overwrites all of them, so they are
\* dropped here: states that differ only in a dead message are one state
closeModal(u) == [u EXCEPT !.modal = NoModal]

\* renderClock / the body of tick(): format a time into dateStr and timeStr
renderClock(u, ms) ==
  [u EXCEPT !.dateStr = istDateTimeParts(ms).date,
            !.timeStr = istDateTimeParts(ms).time]

\* tick() of the clock effect
tick(u) ==
  LET trusted == getTrustedNowOf(u.timeSync)
  IN IF trusted # NoMs THEN renderClock(u, trusted)
     ELSE IF rev = 1 THEN [u EXCEPT !.dateStr = DASH, !.timeStr = DASH]
     ELSE renderClock(u, DeviceNow)

\* variant: the clock effect without its frozen early return
ClockEffectThawed(u) ==
  IF u.isTimeFrozen = isTimeFrozen /\ ~u.timeSyncSet THEN u
  ELSE tick(u)

\* clock effect, dependencies [isTimeFrozen, timeSync]
ClockEffect(u) ==
  IF u.isTimeFrozen = isTimeFrozen /\ ~u.timeSyncSet THEN u
  ELSE IF u.isTimeFrozen THEN u
  ELSE tick(u)

\* resolver effect, dependencies [officeId, employeeId, dateStr]; the cleanup
\* of the previous run cancels the query it left in flight
ResolverEffect(u) ==
  IF u.officeId = officeId /\ u.employeeId = employeeId /\ u.dateStr = dateStr THEN u
  ELSE IF u.officeId = NoId \/ u.employeeId = NoId
       THEN [u EXCEPT !.resolver = NoResolver, !.lastAction = NULL]
  ELSE IF u.dateStr = DASH THEN [u EXCEPT !.resolver = NoResolver]
  ELSE [u EXCEPT !.resolver = [employeeName |-> u.employeeId,
                               attendanceDate |-> u.dateStr]]

\* variant: no reselect effect
ReselectEffectOff(u) == u

\* reselect effect, dependencies [officeId, employeeId, allowedTypes, type]
ReselectEffect(u) ==
  LET allowed == allowedTypesOf(u.officeId, u.employeeId, u.lastAction)
      first == IF Len(allowed) > 0 THEN allowed[1] ELSE "checkin"
  IN IF u.officeId = NoId \/ u.employeeId = NoId THEN u
     ELSE IF ~Includes(allowed, u.type) THEN [u EXCEPT !.type = first]
     ELSE u

Effects(u) == ReselectEffect(ResolverEffect(ClockEffect(u)))

Commit(u) ==
  \E v \in {Effects(u)} :
     /\ officeId' = v.officeId
     /\ employeeId' = v.employeeId
     /\ type' = v.type
     /\ lastAction' = v.lastAction
     /\ isTimeFrozen' = v.isTimeFrozen
     /\ isLocationFrozen' = v.isLocationFrozen
     /\ timeSync' = v.timeSync
     /\ isTimeReady' = v.isTimeReady
     /\ dateStr' = v.dateStr
     /\ timeStr' = v.timeStr
     /\ lat' = v.lat
     /\ lng' = v.lng
     /\ address' = v.address
     /\ frozenLat' = v.frozenLat
     /\ frozenLng' = v.frozenLng
     /\ frozenAddress' = v.frozenAddress
     /\ selfieFile' = v.selfieFile
     /\ modal' = v.modal
     /\ resolver' = v.resolver

displayLat == IF isLocationFrozen THEN frozenLat ELSE lat
displayLng == IF isLocationFrozen THEN frozenLng ELSE lng
displayAddress == IF isLocationFrozen THEN frozenAddress ELSE address

----------------------------------------------------------------------------
(* Initial state: the component is mounted and its mount effects have run *)

Providers == 3
Attempts == 3

NewSyncRun(then) == [attempt |-> 1, prov |-> 1, pc |-> "call", t0 |-> perf, then |-> then]

\* the cached TimeSync of the time init effect (revision 2)
CachedTimeSync(c, wall) ==
  LET elapsed == wall - c.savedAtMs
      corrected == c.serverEpochMs + clamp(elapsed, 0, DayMs)
  IN [serverEpochMs |-> corrected, perfAtSync |-> 0]

\* the mount state for a device clock in walls and a stored sync cache in caches
InitWith(walls, caches) ==
  /\ rev \in Revisions
  /\ ESPO_BASEURL \in BOOLEAN
  /\ ESPO_API_KEY \in BOOLEAN
  /\ perf = 0
  /\ wallBase \in walls
  /\ cache \in (IF rev = 2 THEN caches ELSE {NoCache})
  /\ staff = Employees
  /\ offices = {}
  /\ orgLoading = (ESPO_BASEURL /\ ESPO_API_KEY)
  /\ officeId = NoId /\ employeeId = NoId /\ type = "checkin" /\ lastAction = NULL
  /\ isTimeFrozen = FALSE /\ isLocationFrozen = FALSE
  /\ timeSync = (IF rev = 2 /\ cache # NoCache THEN CachedTimeSync(cache, wallBase)
                 ELSE NoSync)
  /\ isTimeReady = (rev = 2)
  /\ dateStr = (IF rev = 1 THEN DASH
                ELSE IF cache # NoCache
                     THEN istDateTimeParts(CachedTimeSync(cache, wallBase).serverEpochMs).date
                ELSE istDateTimeParts(wallBase).date)
  /\ timeStr = (IF rev = 1 THEN DASH
                ELSE IF cache # NoCache
                     THEN istDateTimeParts(CachedTimeSync(cache, wallBase).serverEpochMs).time
                ELSE istDateTimeParts(wallBase).time)
  /\ lat = NoPos /\ lng = NoPos /\ address = NoAddr
  /\ frozenLat = NoPos /\ frozenLng = NoPos /\ frozenAddress = NoAddr
  /\ lastGeoReqRef = 0 /\ geos = <<>> /\ oneshots = <<>>
  /\ selfieFile = NULL
  /\ modal = NoModal
  /\ resolver = NoResolver
  /\ syncs = <<NewSyncRun("none")>>
  /\ submits = {}
  /\ nextSid = 1
  /\ records = <<>>
  /\ peerCount = 0
  /\ acked = {}

Init == InitWith(WallBases, CacheInits)

----------------------------------------------------------------------------
(* Sequence helpers *)

RemoveAt(seq, i) == SubSeq(seq, 1, i - 1) \o SubSeq(seq, i + 1, Len(seq))

----------------------------------------------------------------------------
(* Organisation loader (external collaborator): offices and employees *)

\* loadOrgFromEspo up to its first await
loadOrgStart == ESPO_BASEURL /\ ESPO_API_KEY

LoadOrgDone(ok) ==
  /\ orgLoading
  /\ offices' = (IF ok THEN Offices ELSE {})
  /\ orgLoading' = FALSE
  /\ UNCHANGED <<envVars, uiVars, locVars, syncs, submits, nextSid, records,
                 peerCount, acked>>

----------------------------------------------------------------------------
(* Trusted clock *)

\* time passes on the monotonic clock (and with it on the device clock)
Advance ==
  /\ perf < MaxPerf
  /\ perf' = perf + 1
  /\ UNCHANGED <<rev, ESPO_BASEURL, ESPO_API_KEY, wallBase, cache, staff, offices,
                 orgLoading,
                 uiVars, locVars, syncs, submits, nextSid, records, peerCount, acked>>

\* the user sets the device clock: Date.now() and new Date() jump
ClockChange ==
  /\ wallBase' \in WallBases \ {wallBase}
  /\ UNCHANGED <<rev, ESPO_BASEURL, ESPO_API_KEY, perf, cache, staff, offices, orgLoading,
                 uiVars, locVars, syncs, submits, nextSid, records, peerCount, acked>>

\* the one-second interval of the clock effect
Tick ==
  /\ ~isTimeFrozen
  /\ Commit(tick(Cur))
  /\ UNCHANGED <<envVars, offices, orgLoading, locVars, syncs, submits, nextSid,
                 records, peerCount, acked>>

\* variant: a sync run that leaves the ready flag as it is
syncStartKeepingReady(u) == u

\* syncKolkataTime up to its first await, applied to the React state u
syncStart(u) == IF rev = 1 THEN [u EXCEPT !.isTimeReady = FALSE] ELSE u

\* the five-minute interval of the sync effect
SyncTimer ==
  /\ Len(syncs) < MaxSyncRuns
  /\ syncs' = Append(syncs, NewSyncRun("none"))
  /\ Commit(syncStart(Cur))
  /\ UNCHANGED <<envVars, offices, orgLoading, locVars, submits, nextSid, records,
                 peerCount, acked>>

\* what follows the end of a sync run: onRefreshAll awaits it, then loads the org
AfterSync(run) ==
  IF run.then = "loadOrg"
  THEN /\ orgLoading' = loadOrgStart
       /\ offices' = (IF loadOrgStart THEN offices ELSE {})
  ELSE UNCHANGED <<offices, orgLoading>>

\* a provider answers with a finite time; s is the instant the server read its clock
SyncProviderOk(i, s) ==
  /\ i \in 1..Len(syncs)
  /\ syncs[i].pc = "call"
  /\ syncs[i].prov = 1 => (ESPO_BASEURL /\ ESPO_API_KEY)
  /\ s \in syncs[i].t0..perf
  /\ LET rtt == perf - syncs[i].t0
         ms == (ServerEpoch0 + s) + (rtt \div 2)
     IN /\ Commit([Cur EXCEPT !.timeSync = [serverEpochMs |-> ms, perfAtSync |-> perf],
                              !.timeSyncSet = TRUE,
                              !.isTimeReady = TRUE])
        /\ cache' = (IF rev = 2 THEN [serverEpochMs |-> ms, savedAtMs |-> DeviceNow]
                     ELSE cache)
  /\ syncs' = RemoveAt(syncs, i)
  /\ AfterSync(syncs[i])
  /\ UNCHANGED <<rev, ESPO_BASEURL, ESPO_API_KEY, perf, wallBase, staff, locVars, submits,
                 nextSid, records, peerCount, acked>>

\* a provider throws (not configured, HTTP error, timeout, invalid time)
SyncProviderFail(i) ==
  /\ i \in 1..Len(syncs)
  /\ syncs[i].pc = "call"
  /\ IF syncs[i].prov < Providers
     THEN /\ syncs' = [syncs EXCEPT ![i].prov = @ + 1, ![i].t0 = perf]
          /\ UNCHANGED <<offices, orgLoading>>
     ELSE IF rev = 1
     THEN /\ syncs' = [syncs EXCEPT ![i].pc = "sleep"]
          /\ UNCHANGED <<offices, orgLoading>>
     ELSE /\ syncs' = RemoveAt(syncs, i)
          /\ AfterSync(syncs[i])
  /\ UNCHANGED <<envVars, uiVars, locVars, submits, nextSid, records, peerCount, acked>>

\* variant: giving up clears the TimeSync pair
SyncSleepDoneClearing(i) ==
  /\ i \in 1..Len(syncs)
  /\ syncs[i].pc = "sleep"
  /\ IF syncs[i].attempt < Attempts
     THEN /\ syncs' = [syncs EXCEPT ![i].attempt = @ + 1, ![i].prov = 1,
                                    ![i].pc = "call", ![i].t0 = perf]
          /\ UNCHANGED <<offices, orgLoading, uiVars>>
     ELSE /\ syncs' = RemoveAt(syncs, i)
          /\ Commit([Cur EXCEPT !.isTimeReady = FALSE, !.timeSync = NoSync,
                                !.timeSyncSet = TRUE])
          /\ AfterSync(syncs[i])
  /\ UNCHANGED <<envVars, locVars, submits, nextSid, records, peerCount, acked>>

\* sleep(400 * attempt) is over (revision 1): next round, or give up
SyncSleepDone(i) ==
  /\ i \in 1..Len(syncs)
  /\ syncs[i].pc = "sleep"
  /\ IF syncs[i].attempt < Attempts
     THEN /\ syncs' = [syncs EXCEPT ![i].attempt = @ + 1, ![i].prov = 1,
                                    ![i].pc = "call", ![i].t0 = perf]
          /\ UNCHANGED <<offices, orgLoading, uiVars>>
     ELSE /\ syncs' = RemoveAt(syncs, i)
          /\ Commit([Cur EXCEPT !.isTimeReady = FALSE])
          /\ AfterSync(syncs[i])
  /\ UNCHANGED <<envVars, locVars, submits, nextSid, records, peerCount, acked>>

----------------------------------------------------------------------------
(* Location tracker *)

\* reverseGeocode: the address of a fix is identified by the fix
reverseGeocode(la) == la

\* watchPosition success callback up to its await; the callback belongs to the
\* render that subscribed it, so it holds that render's isLocationFrozen
WatchFix(p) ==
  /\ Len(geos) < MaxGeos
  /\ Commit(IF ~isLocationFrozen THEN [Cur EXCEPT !.lat = p, !.lng = p] ELSE Cur)
  /\ lastGeoReqRef' = DeviceNow
  /\ geos' = Append([j \in 1..Len(geos) |-> [geos[j] EXCEPT !.superseded = TRUE]],
                     [reqId |-> DeviceNow, la |-> p, frozen |-> isLocationFrozen,
                      superseded |-> FALSE])
  /\ UNCHANGED <<envVars, offices, orgLoading, oneshots, syncs, submits, nextSid,
                 records, peerCount, acked>>

\* variant: while the location is frozen the result goes to the frozen address
WatchGeoDoneIntoFrozen(i, ok) ==
  /\ i \in 1..Len(geos)
  /\ geos' = RemoveAt(geos, i)
  /\ Commit(IF lastGeoReqRef # geos[i].reqId THEN Cur
            ELSE IF geos[i].frozen
            THEN [Cur EXCEPT !.frozenAddress = IF ok THEN reverseGeocode(geos[i].la)
                                                ELSE NoAddr]
            ELSE [Cur EXCEPT !.address = IF ok THEN reverseGeocode(geos[i].la)
                                            ELSE NoAddr])
  /\ UNCHANGED <<envVars, offices, orgLoading, lastGeoReqRef, oneshots, syncs, submits,
                 nextSid, records, peerCount, acked>>

\* the reverse-geocode call of a watch fix returns (ok) or throws
WatchGeoDone(i, ok) ==
  /\ i \in 1..Len(geos)
  /\ geos' = RemoveAt(geos, i)
  /\ Commit(IF lastGeoReqRef # geos[i].reqId THEN Cur
            ELSE IF geos[i].frozen THEN Cur
            ELSE [Cur EXCEPT !.address = IF ok THEN reverseGeocode(geos[i].la)
                                            ELSE NoAddr])
  /\ UNCHANGED <<envVars, offices, orgLoading, lastGeoReqRef, oneshots, syncs, submits,
                 nextSid, records, peerCount, acked>>

\* variant: the freeze copies the live fix without latching the flag
freezeLocationNowUnlatched(u) ==
  IF lat # NoPos /\ lng # NoPos
  THEN [u EXCEPT !.frozenLat = lat, !.frozenLng = lng, !.frozenAddress = address]
  ELSE u

\* freezeLocationNow up to its await, applied to the React state u
freezeLocationNow(u) ==
  LET f == [u EXCEPT !.isLocationFrozen = TRUE]
  IN IF lat # NoPos /\ lng # NoPos
     THEN [f EXCEPT !.frozenLat = lat, !.frozenLng = lng, !.frozenAddress = address]
     ELSE f

\* freezeLocationNow falls back to a one-shot position request
NeedsOneshot == ~(lat # NoPos /\ lng # NoPos)

\* getCurrentPosition of the one-shot succeeds
OneshotFix(i, p) ==
  /\ i \in 1..Len(oneshots)
  /\ oneshots[i].pc = "pos"
  /\ oneshots' = [oneshots EXCEPT ![i] = [pc |-> "geo", la |-> p]]
  /\ Commit([Cur EXCEPT !.frozenLat = p, !.frozenLng = p])
  /\ UNCHANGED <<envVars, offices, orgLoading, lastGeoReqRef, geos, syncs, submits,
                 nextSid, records, peerCount, acked>>

\* getCurrentPosition of the one-shot fails
OneshotError(i) ==
  /\ i \in 1..Len(oneshots)
  /\ oneshots[i].pc = "pos"
  /\ oneshots' = RemoveAt(oneshots, i)
  /\ UNCHANGED <<envVars, offices, orgLoading, uiVars, lastGeoReqRef, geos, syncs,
                 submits, nextSid, records, peerCount, acked>>

\* the reverse-geocode call of the one-shot returns (ok) or throws
OneshotGeoDone(i, ok) ==
  /\ i \in 1..Len(oneshots)
  /\ oneshots[i].pc = "geo"
  /\ oneshots' = RemoveAt(oneshots, i)
  /\ Commit([Cur EXCEPT !.frozenAddress = IF ok THEN reverseGeocode(oneshots[i].la)
                                           ELSE NoAddr])
  /\ UNCHANGED <<envVars, offices, orgLoading, lastGeoReqRef, geos, syncs, submits,
                 nextSid, records, peerCount, acked>>

----------------------------------------------------------------------------
(* Selections *)

\* the page under the modal overlay takes no input while the dialog is open
Interactive == ~modal.open

\* office <select> onChange
SelectOffice(val) ==
  /\ Interactive
  /\ ~orgLoading
  /\ val \in offices \cup {NoId}
  /\ val # officeId
  /\ LET u0 == [Cur EXCEPT !.officeId = val, !.employeeId = NoId, !.lastAction = NULL,
                           !.type = "checkin", !.selfieFile = NULL]
         trusted == getTrustedNow
         u1 == IF trusted # NoMs THEN renderClock(u0, trusted)
               ELSE IF rev = 1 THEN [u0 EXCEPT !.dateStr = DASH, !.timeStr = DASH]
               ELSE renderClock(u0, DeviceNow)
     IN IF val # NoId
        THEN /\ Commit(freezeLocationNow([u1 EXCEPT !.isTimeFrozen = TRUE]))
             /\ oneshots' = (IF NeedsOneshot THEN Append(oneshots, [pc |-> "pos", la |-> NoPos])
                             ELSE oneshots)
        ELSE /\ Commit([u0 EXCEPT !.isTimeFrozen = FALSE, !.isLocationFrozen = FALSE,
                                  !.frozenLat = NoPos, !.frozenLng = NoPos,
                                  !.frozenAddress = NoAddr])
             /\ UNCHANGED oneshots
  /\ (val # NoId /\ NeedsOneshot) => Len(oneshots) < MaxOneshots
  /\ UNCHANGED <<envVars, offices, orgLoading, lastGeoReqRef, geos, syncs, submits,
                 nextSid, records, peerCount, acked>>

\* the employees listed for the selected office
filteredEmployees == IF officeId # NoId /\ officeId \in offices THEN staff ELSE {}

\* employee <select> onChange
SelectEmployee(val) ==
  /\ Interactive
  /\ officeId # NoId
  /\ val \in filteredEmployees \cup {NoId}
  /\ val # employeeId
  /\ Commit([Cur EXCEPT !.employeeId = val, !.lastAction = NULL, !.type = "checkin",
                        !.selfieFile = NULL])
  /\ UNCHANGED <<envVars, offices, orgLoading, locVars, syncs, submits, nextSid,
                 records, peerCount, acked>>

\* attendance type radio onChange: disabled unless the type is allowed
SelectType(t) ==
  /\ Interactive
  /\ officeId # NoId /\ employeeId # NoId
  /\ Includes(allowedTypes, t)
  /\ t # type
  /\ Commit([Cur EXCEPT !.type = t])
  /\ UNCHANGED <<envVars, offices, orgLoading, locVars, syncs, submits, nextSid,
                 records, peerCount, acked>>

\* the selfie and submit card is rendered
SubmitCardShown == officeId # NoId /\ employeeId # NoId /\ Len(allowedTypes) > 0

\* SelfieCamera onCapture
CaptureSelfie ==
  /\ Interactive
  /\ SubmitCardShown
  /\ selfieFile = NULL
  /\ Commit([Cur EXCEPT !.selfieFile = "selfie"])
  /\ UNCHANGED <<envVars, offices, orgLoading, locVars, syncs, submits, nextSid,
                 records, peerCount, acked>>

\* "Reset Attendance (Test Only)" button of revision 2
ResetAttendance ==
  /\ Interactive
  /\ rev = 2
  /\ lastAction # NULL
  /\ Commit([Cur EXCEPT !.lastAction = NULL])
  /\ UNCHANGED <<envVars, offices, orgLoading, locVars, syncs, submits, nextSid,
                 records, peerCount, acked>>

\* variant: a thrown query is resolved from the record all the same
ResolverDoneIgnoringThrow(ok) ==
  /\ resolver # NoResolver
  /\ LET rec == findTodayRecord(resolver.employeeName, resolver.attendanceDate)
     IN Commit([Cur EXCEPT !.resolver = NoResolver,
                           !.lastAction = computeLastActionFromRecord(rec)])
  /\ UNCHANGED <<envVars, offices, orgLoading, locVars, syncs, submits, nextSid,
                 records, peerCount, acked>>

\* the resolver's record query returns (ok) or throws
ResolverDone(ok) ==
  /\ resolver # NoResolver
  /\ LET rec == findTodayRecord(resolver.employeeName, resolver.attendanceDate)
     IN Commit([Cur EXCEPT !.resolver = NoResolver,
                           !.lastAction = IF ok THEN computeLastActionFromRecord(rec)
                                          ELSE NULL])
  /\ UNCHANGED <<envVars, offices, orgLoading, locVars, syncs, submits, nextSid,
                 records, peerCount, acked>>

----------------------------------------------------------------------------
(* Refresh and dialog *)

\* variant: the refresh also drops the TimeSync pair
refreshStateDroppingPair(u) ==
  LET u0 == [u EXCEPT !.officeId = NoId, !.employeeId = NoId, !.type = "checkin",
                      !.lastAction = NULL, !.selfieFile = NULL, !.isTimeFrozen = FALSE,
                      !.isLocationFrozen = FALSE, !.frozenLat = NoPos,
                      !.frozenLng = NoPos, !.frozenAddress = NoAddr,
                      !.lat = NoPos, !.lng = NoPos, !.address = NoAddr,
                      !.timeSync = NoSync]
  IN IF rev = 1 THEN syncStart([u0 EXCEPT !.dateStr = DASH, !.timeStr = DASH])
     ELSE syncStart(renderClock(u0, DeviceNow))

\* the state updates of onRefreshAll
refreshState(u) ==
  LET u0 == [u EXCEPT !.officeId = NoId, !.employeeId = NoId, !.type = "checkin",
                      !.lastAction = NULL, !.selfieFile = NULL, !.isTimeFrozen = FALSE,
                      !.isLocationFrozen = FALSE, !.frozenLat = NoPos,
                      !.frozenLng = NoPos, !.frozenAddress = NoAddr,
                      !.lat = NoPos, !.lng = NoPos, !.address = NoAddr]
  IN IF rev = 1 THEN syncStart([u0 EXCEPT !.dateStr = DASH, !.timeStr = DASH])
     ELSE syncStart(renderClock(u0, DeviceNow))

\* onRefreshAll: reset, start a sync run and (revision 1: after it) reload the org
onRefreshAll(u) ==
  /\ Len(syncs) < MaxSyncRuns
  /\ Commit(refreshState(u))
  /\ syncs' = Append(syncs, NewSyncRun(IF rev = 1 THEN "loadOrg" ELSE "none"))
  /\ IF rev = 1 THEN UNCHANGED <<offices, orgLoading>>
     ELSE /\ orgLoading' = loadOrgStart
          /\ offices' = (IF loadOrgStart THEN offices ELSE {})
  /\ UNCHANGED <<envVars, locVars, submits, nextSid, records, peerCount, acked>>

\* the refresh button of the top bar
RefreshAll ==
  /\ Interactive
  /\ onRefreshAll(Cur)

\* OK button of the dialog
onModalOk ==
  /\ modal.open
  /\ IF modal.refreshOnOk THEN onRefreshAll(closeModal(Cur))
     ELSE /\ Commit(closeModal(Cur))
          /\ UNCHANGED <<envVars, offices, orgLoading, locVars, syncs, submits, nextSid,
                         records, peerCount, acked>>

----------------------------------------------------------------------------
(* Submit *)

\* the validations of onSubmit, in source order: the message of the first one
\* that fails, "" when all pass
SubmitError ==
  IF ~ESPO_BASEURL THEN "baseurl-missing"
  ELSE IF ~ESPO_API_KEY THEN "apikey-missing"
  ELSE IF officeId = NoId THEN "select-office"
  ELSE IF employeeId = NoId THEN "select-employee"
  ELSE IF ~Includes(allowedTypes, type) THEN "not-allowed"
  ELSE IF ~isTimeReady THEN "time-syncing"
  ELSE IF rev = 1 /\ (displayLat = NoPos \/ displayLng = NoPos) THEN "location-missing"
  ELSE IF selfieFile = NULL THEN "take-selfie"
  ELSE ""

\* what an invocation of onSubmit keeps for its continuation: the values of its render
NewSubmit ==
  LET noLoc == displayLat = NoPos \/ displayLng = NoPos
  IN [sid |-> nextSid, pc |-> "upload", type |-> type,
      officeCode |-> officeId, employeeName |-> employeeId,
      date |-> dateStr, time |-> timeStr,
      lat |-> IF noLoc THEN DefaultPos ELSE displayLat,
      lng |-> IF noLoc THEN DefaultPos ELSE displayLng,
      notes |-> IF noLoc THEN DefaultNote ELSE displayAddress,
      existing |-> 0, useAttachment |-> FALSE]

\* click on "Submit Attendance"
OnSubmit ==
  /\ Interactive
  /\ SubmitCardShown
  /\ IF SubmitError # ""
     THEN /\ Commit(openModal(Cur, SubmitError, "", FALSE))
          /\ UNCHANGED <<submits, nextSid>>
     ELSE /\ nextSid <= MaxSubmits
          /\ submits' = submits \cup {NewSubmit}
          /\ nextSid' = nextSid + 1
          /\ UNCHANGED uiVars
  /\ UNCHANGED <<envVars, offices, orgLoading, locVars, syncs, records, peerCount, acked>>

\* variant: the catch block also drops the pending selfie
submitFailedDroppingSelfie(s, err) ==
  Commit(openModal([Cur EXCEPT !.selfieFile = NULL], "submit-failed", err, FALSE))

\* the catch block of onSubmit
submitFailed(s, err) == Commit(openModal(Cur, "submit-failed", err, FALSE))

\* a return openModal(...) inside the try block
submitRejected(s, kind) == Commit(openModal(Cur, kind, s.type, FALSE))

\* what the success dialog of s announces
Ack(s) == [employeeName |-> s.employeeName, date |-> s.date, type |-> s.type,
           started |-> nextSid - 1]

\* setLastAction; setSelfieFile(null); openModal(..., true)
submitSucceeded(s, last) ==
  Commit(openModal([Cur EXCEPT !.lastAction = last, !.selfieFile = NULL],
                   "submitted", s.type, TRUE))

\* variant: the submit goes on whatever the upload answers
UploadDoneIgnored(s, out) ==
  /\ s \in submits
  /\ s.pc = "upload"
  /\ out \in {"ok", "fail", "readfail"}
  /\ submits' = (submits \ {s}) \cup
                 {[s EXCEPT !.pc = "find", !.useAttachment = (out = "ok")]}
  /\ UNCHANGED uiVars
  /\ UNCHANGED <<envVars, offices, orgLoading, locVars, syncs, nextSid, records, peerCount, acked>>

\* espoUploadSelfie returns or throws.  out: "ok" the attachment is stored,
\* "fail" the attachment request fails, "readfail" the file cannot be encoded
UploadDone(s, out) ==
  /\ s \in submits
  /\ s.pc = "upload"
  /\ out \in {"ok", "fail", "readfail"}
  /\ IF out = "ok" \/ (rev = 2 /\ out = "fail")
     THEN /\ submits' = (submits \ {s}) \cup
                        {[s EXCEPT !.pc = "find", !.useAttachment = (out = "ok")]}
          /\ UNCHANGED uiVars
     ELSE /\ submits' = submits \ {s}
          /\ submitFailed(s, IF out = "fail" THEN "upload" ELSE "file-read")
  /\ UNCHANGED <<envVars, offices, orgLoading, locVars, syncs, nextSid, records, peerCount, acked>>

\* variant: a submit that finds no record creates one whatever its action
FindDoneCreatesAny(s, ok) ==
  /\ s \in submits
  /\ s.pc = "find"
  /\ LET existing == findTodayRecord(s.employeeName, s.date)
     IN IF ~ok
        THEN /\ submits' = submits \ {s}
             /\ submitFailed(s, "query")
        ELSE IF existing = NoRec
        THEN /\ submits' = (submits \ {s}) \cup {[s EXCEPT !.pc = "create"]}
             /\ UNCHANGED uiVars
        ELSE IF existing[fieldByType(s.type)] # EMPTY
        THEN /\ submits' = submits \ {s}
             /\ submitRejected(s, "already-done")
        ELSE /\ submits' = (submits \ {s}) \cup
                           {[s EXCEPT !.pc = "update", !.existing = existing.id]}
             /\ UNCHANGED uiVars
  /\ UNCHANGED <<envVars, offices, orgLoading, locVars, syncs, nextSid, records, peerCount, acked>>

\* variant: the state held by the component decides, the record found is updated
\* without looking at its timestamps
FindDoneTrustingState(s, ok) ==
  /\ s \in submits
  /\ s.pc = "find"
  /\ LET existing == findTodayRecord(s.employeeName, s.date)
     IN IF ~ok
        THEN /\ submits' = submits \ {s}
             /\ submitFailed(s, "query")
        ELSE IF existing = NoRec
        THEN IF s.type # "checkin"
             THEN /\ submits' = submits \ {s}
                  /\ submitRejected(s, "checkin-first")
             ELSE /\ submits' = (submits \ {s}) \cup {[s EXCEPT !.pc = "create"]}
                  /\ UNCHANGED uiVars
        ELSE /\ submits' = (submits \ {s}) \cup
                           {[s EXCEPT !.pc = "update", !.existing = existing.id]}
             /\ UNCHANGED uiVars
  /\ UNCHANGED <<envVars, offices, orgLoading, locVars, syncs, nextSid, records, peerCount, acked>>

\* the record query of onSubmit returns (ok) or throws, and the code up to the
\* next await runs
FindDone(s, ok) ==
  /\ s \in submits
  /\ s.pc = "find"
  /\ LET existing == findTodayRecord(s.employeeName, s.date)
     IN IF ~ok
        THEN /\ submits' = submits \ {s}
             /\ submitFailed(s, "query")
        ELSE IF existing = NoRec
        THEN IF s.type # "checkin"
             THEN /\ submits' = submits \ {s}
                  /\ submitRejected(s, "checkin-first")
             ELSE /\ submits' = (submits \ {s}) \cup {[s EXCEPT !.pc = "create"]}
                  /\ UNCHANGED uiVars
        ELSE IF existing[fieldByType(s.type)] # EMPTY
        THEN /\ submits' = submits \ {s}
             /\ submitRejected(s, "already-done")
        ELSE /\ submits' = (submits \ {s}) \cup
                           {[s EXCEPT !.pc = "update", !.existing = existing.id]}
             /\ UNCHANGED uiVars
  /\ UNCHANGED <<envVars, offices, orgLoading, locVars, syncs, nextSid, records, peerCount, acked>>

\* the timestamp a submit writes: "date time", with the attachment id of its selfie
Stamp(s) == <<s.date, s.time, s.sid>>

\* variant: the new record is stamped as checked out as well
CreatedAsCheckedOut(s, id) ==
  [id |-> id, employeeName |-> s.employeeName, officeCode |-> s.officeCode,
   attendanceDate |-> s.date, officeLat |-> s.lat, officeLng |-> s.lng, notes |-> s.notes,
   checkInAt |-> Stamp(s), lunchOutAt |-> EMPTY, lunchInAt |-> EMPTY,
   checkOutAt |-> Stamp(s)]

\* the record the store holds after POST of createPayload
CreatedAs(s, id) ==
  [id |-> id, employeeName |-> s.employeeName, officeCode |-> s.officeCode,
   attendanceDate |-> s.date, officeLat |-> s.lat, officeLng |-> s.lng, notes |-> s.notes,
   checkInAt |-> Stamp(s), lunchOutAt |-> EMPTY, lunchInAt |-> EMPTY, checkOutAt |-> EMPTY]

Created(s) == CreatedAs(s, Len(records) + 1)

\* the record the store holds after PUT of updatePayload on rec
Updated(rec, s) ==
  [[rec EXCEPT !.employeeName = s.employeeName, !.officeCode = s.officeCode,
               !.attendanceDate = s.date, !.officeLat = s.lat, !.officeLng = s.lng,
               !.notes = s.notes]
     EXCEPT ![fieldByType(s.type)] = Stamp(s)]

\* espoCreate: "ok" stored and answered, "lost" stored but the answer never
\* arrives (timeout), "fail" not stored
CreateDone(s, out) ==
  /\ s \in submits
  /\ s.pc = "create"
  /\ out \in {"ok", "lost", "fail"}
  /\ submits' = submits \ {s}
  /\ records' = (IF out = "fail" THEN records ELSE Append(records, Created(s)))
  /\ IF out = "ok"
     THEN submitSucceeded(s, IF computeLastActionFromRecord(Created(s)) # NULL
                             THEN computeLastActionFromRecord(Created(s))
                             ELSE "checkin")
     ELSE submitFailed(s, "create")
  /\ acked' = (IF out = "ok" THEN acked \cup {Ack(s)} ELSE acked)
  /\ UNCHANGED <<envVars, offices, orgLoading, locVars, syncs, nextSid, peerCount>>

\* espoUpdate: outcomes as for espoCreate
UpdateDone(s, out) ==
  /\ s \in submits
  /\ s.pc = "update"
  /\ out \in {"ok", "lost", "fail"}
  /\ records' = (IF out = "fail" THEN records
                 ELSE [records EXCEPT ![s.existing] = Updated(@, s)])
  /\ IF out = "ok"
     THEN /\ submits' = (submits \ {s}) \cup {[s EXCEPT !.pc = "refetch"]}
          /\ UNCHANGED uiVars
     ELSE /\ submits' = submits \ {s}
          /\ submitFailed(s, "update")
  /\ UNCHANGED <<envVars, offices, orgLoading, locVars, syncs, nextSid, peerCount, acked>>

\* the record query after the update returns (ok) or throws
RefetchDone(s, ok) ==
  /\ s \in submits
  /\ s.pc = "refetch"
  /\ submits' = submits \ {s}
  /\ IF ok
     THEN submitSucceeded(s, computeLastActionFromRecord(
                               findTodayRecord(s.employeeName, s.date)))
     ELSE submitFailed(s, "query")
  /\ acked' = (IF ok THEN acked \cup {Ack(s)} ELSE acked)
  /\ UNCHANGED <<envVars, offices, orgLoading, locVars, syncs, nextSid, records, peerCount>>

----------------------------------------------------------------------------
(* A second session on another device running the same onSubmit.  Of that     *)
(* session only the write that takes effect on the store is kept: its state   *)
(* was resolved from the record as it is now, its validations passed, and its *)
(* lookup and its create or update follow each other without interruption     *)

PeerDate == istDateTimeParts(ServerNow).date
PeerWrite(e, t) ==
  /\ peerCount < MaxPeerWrites
  /\ ESPO_BASEURL /\ ESPO_API_KEY
  /\ e \in Employees
  /\ LET existing == findTodayRecord(e, PeerDate)
         s == [sid |-> 0 - (peerCount + 1), pc |-> "find", type |-> t,
               officeCode |-> "peer", employeeName |-> e, date |-> PeerDate,
               time |-> istDateTimeParts(ServerNow).time, lat |-> 1, lng |-> 1,
               notes |-> NoAddr, existing |-> existing.id, useAttachment |-> TRUE]
     IN /\ Includes(allowedTypesOf("peer", e, computeLastActionFromRecord(existing)), t)
        /\ records' = (IF existing = NoRec THEN Append(records, Created(s))
                       ELSE [records EXCEPT ![existing.id] = Updated(@, s)])
  /\ peerCount' = peerCount + 1
  /\ UNCHANGED <<envVars, offices, orgLoading, uiVars, locVars, syncs, submits, nextSid,
                 acked>>

----------------------------------------------------------------------------
(* Specification: every action, from the mounted component *)

Next ==
  \/ \E ok \in BOOLEAN : LoadOrgDone(ok)
  \/ Advance
  \/ ClockChange
  \/ Tick
  \/ SyncTimer
  \/ \E i \in 1..Len(syncs) : \E s \in 0..MaxPerf : SyncProviderOk(i, s)
  \/ \E i \in 1..Len(syncs) : SyncProviderFail(i)
  \/ \E i \in 1..Len(syncs) : SyncSleepDone(i)
  \/ \E p \in MovingFixes : WatchFix(p)
  \/ \E i \in 1..Len(geos) : \E ok \in BOOLEAN : WatchGeoDone(i, ok)
  \/ \E i \in 1..Len(oneshots) : \E p \in Fixes : OneshotFix(i, p)
  \/ \E i \in 1..Len(oneshots) : OneshotError(i)
  \/ \E i \in 1..Len(oneshots) : \E ok \in BOOLEAN : OneshotGeoDone(i, ok)
  \/ \E val \in Offices \cup {NoId} : SelectOffice(val)
  \/ \E val \in staff \cup {NoId} : SelectEmployee(val)
  \/ \E t \in AllTypes : SelectType(t)
  \/ CaptureSelfie
  \/ ResetAttendance
  \/ \E ok \in BOOLEAN : ResolverDone(ok)
  \/ RefreshAll
  \/ onModalOk
  \/ OnSubmit
  \/ \E s \in submits : \E out \in {"ok", "fail", "readfail"} : UploadDone(s, out)
  \/ \E s \in submits : \E ok \in BOOLEAN : FindDone(s, ok)
  \/ \E s \in submits : \E out \in {"ok", "lost", "fail"} : CreateDone(s, out)
  \/ \E s \in submits : \E out \in {"ok", "lost", "fail"} : UpdateDone(s, out)
  \/ \E s \in submits : \E ok \in BOOLEAN : RefetchDone(s, ok)
  \/ \E e \in Employees : \E t \in AllTypes : PeerWrite(e, t)

Spec == Init /\ [][Next]_vars

----------------------------------------------------------------------------
(* Submit flow: the component after its mount has settled (first sync run and *)
(* org load over, with either outcome), a device that stands still (no new    *)
(* watch fix), a store that may already hold today's record, and no time      *)
(* passing on the clock                                                       *)

\* a day record of employee e in the state reached after the actions in done
DayRecord(e, d, done, n) ==
  [id |-> 1, employeeName |-> e, officeCode |-> "peer", attendanceDate |-> d,
   officeLat |-> 1, officeLng |-> 1, notes |-> n,
   checkInAt |-> IF "checkin" \in done THEN <<d, 0, 0>> ELSE EMPTY,
   lunchOutAt |-> IF "lunchStart" \in done THEN <<d, 0, 0>> ELSE EMPTY,
   lunchInAt |-> IF "lunchEnd" \in done THEN <<d, 0, 0>> ELSE EMPTY,
   checkOutAt |-> IF "checkout" \in done THEN <<d, 0, 0>> ELSE EMPTY]

SettledComponent ==
  /\ rev \in Revisions
  /\ ESPO_BASEURL \in BOOLEAN
  /\ ESPO_API_KEY \in BOOLEAN
  /\ perf = 0
  /\ wallBase = (IF rev = 2 THEN ServerEpoch0 + DayMs ELSE ServerEpoch0)
  /\ \E synced \in BOOLEAN :
       /\ synced => (ESPO_BASEURL /\ ESPO_API_KEY)
       /\ \E c \in {NoCache} :
            LET ts == IF synced THEN [serverEpochMs |-> ServerNow, perfAtSync |-> 0]
                      ELSE IF rev = 2 /\ c # NoCache THEN CachedTimeSync(c, wallBase)
                      ELSE NoSync
                shown == IF ts # NoSync THEN ts.serverEpochMs ELSE wallBase
            IN /\ timeSync = ts
               /\ cache = (IF rev = 2 /\ synced
                           THEN [serverEpochMs |-> ServerNow, savedAtMs |-> wallBase]
                           ELSE c)
               /\ isTimeReady = (rev = 2 \/ synced)
               /\ dateStr = (IF rev = 1 /\ ~synced THEN DASH
                             ELSE istDateTimeParts(shown).date)
               /\ timeStr = (IF rev = 1 /\ ~synced THEN DASH
                             ELSE istDateTimeParts(shown).time)
  /\ offices \in (IF ESPO_BASEURL /\ ESPO_API_KEY THEN {Offices, {}} ELSE {{}})
  /\ orgLoading = FALSE
  /\ officeId = NoId /\ employeeId = NoId /\ type = "checkin" /\ lastAction = NULL
  /\ isTimeFrozen = FALSE /\ isLocationFrozen = FALSE
  /\ \E p \in Fixes \cup {NoPos} :
       lat = p /\ lng = p /\ address = (IF p = NoPos THEN NoAddr ELSE reverseGeocode(p))
  /\ frozenLat = NoPos /\ frozenLng = NoPos /\ frozenAddress = NoAddr
  /\ lastGeoReqRef = 0 /\ geos = <<>> /\ oneshots = <<>>
  /\ selfieFile = NULL
  /\ modal = NoModal
  /\ resolver = NoResolver
  /\ syncs = <<>>
  /\ peerCount = 0

InitSettled(stores) ==
  /\ SettledComponent
  /\ staff = Employees
  /\ submits = {}
  /\ nextSid = 1
  /\ records \in stores
  /\ acked = {}

\* the store is empty at the start of the day
InitFlow == InitSettled({<<>>})

FlowSteps ==
  \/ \E ok \in BOOLEAN : LoadOrgDone(ok)
  \/ Tick
  \/ \E i \in 1..Len(syncs) : \E s \in 0..MaxPerf : SyncProviderOk(i, s)
  \/ \E i \in 1..Len(oneshots) : \E p \in Fixes : OneshotFix(i, p)
  \/ \E i \in 1..Len(oneshots) : OneshotError(i)
  \/ \E i \in 1..Len(oneshots) : \E ok \in BOOLEAN : OneshotGeoDone(i, ok)
  \/ \E val \in Offices \cup {NoId} : SelectOffice(val)
  \/ \E val \in staff \cup {NoId} : SelectEmployee(val)
  \/ \E t \in AllTypes : SelectType(t)
  \/ CaptureSelfie
  \/ ResetAttendance
  \/ \E ok \in BOOLEAN : ResolverDone(ok)
  \/ onModalOk
  \/ \E s \in submits : \E out \in {"ok", "fail", "readfail"} : UploadDone(s, out)
  \/ \E s \in submits : \E ok \in BOOLEAN : FindDone(s, ok)
  \/ \E s \in submits : \E out \in {"ok", "lost", "fail"} : CreateDone(s, out)
  \/ \E s \in submits : \E out \in {"ok", "lost", "fail"} : UpdateDone(s, out)
  \/ \E s \in submits : \E ok \in BOOLEAN : RefetchDone(s, ok)

NextFlow ==
  \/ FlowSteps
  \/ OnSubmit

SpecFlow == InitFlow /\ [][NextFlow]_vars

----------------------------------------------------------------------------
(* Specification: two sessions.  The settled component with its clock synced, *)
(* the organisation loaded and a location fix; the submit flow interleaved    *)
(* with the writes of a session on another device                             *)

Ready ==
  /\ ESPO_BASEURL /\ ESPO_API_KEY
  /\ timeSync # NoSync
  /\ offices = Offices
  /\ lat # NoPos

InitPeer == InitFlow /\ Ready

NextPeer ==
  \/ NextFlow
  \/ \E e \in Employees : \E t \in AllTypes : PeerWrite(e, t)

SpecPeer == InitPeer /\ [][NextPeer]_vars

----------------------------------------------------------------------------
(* Specification: state resolution.  The store holds no record of the day or  *)
(* one record with any of the sixteen combinations of its four timestamps;    *)
(* the user selects and the resolver reads the record                         *)

ResolveStores ==
  {<<>>} \cup {<<DayRecord(e, PeerDate, done, n)>> :
                 e \in Employees, done \in SUBSET AllTypes, n \in {NoAddr, 1}}

InitResolve == InitSettled(ResolveStores) /\ Ready

NextResolve ==
  \/ Tick
  \/ \E val \in Offices \cup {NoId} : SelectOffice(val)
  \/ \E val \in staff \cup {NoId} : SelectEmployee(val)
  \/ \E t \in AllTypes : SelectType(t)
  \/ CaptureSelfie
  \/ ResetAttendance
  \/ \E ok \in BOOLEAN : ResolverDone(ok)

SpecResolve == InitResolve /\ [][NextResolve]_vars

----------------------------------------------------------------------------
(* Specification: after a double click.  Two clicks on Submit for check-in    *)
(* found no record; the request of the first has created the record and its   *)
(* success was announced and confirmed, the create request of the second is   *)
(* still on its way.  The requests made before this state are numbered 0 and  *)
(* below                                                                      *)

EarlierCheckIn(sid, pc, o, e) ==
  [sid |-> sid, pc |-> pc, type |-> "checkin", officeCode |-> o, employeeName |-> e,
   date |-> PeerDate, time |-> istDateTimeParts(ServerNow).time,
   lat |-> 1, lng |-> 1, notes |-> reverseGeocode(1), existing |-> 0,
   useAttachment |-> TRUE]

InitRepeat ==
  /\ SettledComponent
  /\ staff = Employees
  /\ Ready
  /\ \E o \in Offices : \E e \in Employees :
       /\ records = <<CreatedAs(EarlierCheckIn(-1, "create", o, e), 1)>>
       /\ submits = {EarlierCheckIn(0, "create", o, e)}
       /\ acked = {[employeeName |-> e, date |-> PeerDate, type |-> "checkin",
                    started |-> 0]}
  /\ nextSid = 1

\* the user clicks Submit again only when no request of a later click is waiting
NextRepeat ==
  \/ FlowSteps
  \/ (\A s \in submits : s.sid <= 0) /\ OnSubmit

SpecRepeat == InitRepeat /\ [][NextRepeat]_vars

----------------------------------------------------------------------------
(* Specification: a late answer.  The office lists two employees.  The user   *)
(* has selected the office and the first employee, who has no record of the   *)
(* day, has captured a selfie and has clicked Submit for check-in twice; both *)
(* requests, numbered 0 and 1, wait for their upload.  The answer to that     *)
(* check-in can arrive after the user has gone on to the other employee       *)

TwoEmployees == {"e1", "e2"}

InitStale ==
  /\ rev \in Revisions
  /\ ESPO_BASEURL = TRUE /\ ESPO_API_KEY = TRUE
  /\ perf = 0
  /\ wallBase = (IF rev = 2 THEN ServerEpoch0 + DayMs ELSE ServerEpoch0)
  /\ cache = (IF rev = 2 THEN [serverEpochMs |-> ServerNow, savedAtMs |-> wallBase]
              ELSE NoCache)
  /\ staff = TwoEmployees
  /\ offices = Offices /\ orgLoading = FALSE
  /\ type = "checkin" /\ lastAction = NULL
  /\ isTimeFrozen = TRUE /\ isLocationFrozen = TRUE
  /\ timeSync = [serverEpochMs |-> ServerNow, perfAtSync |-> 0]
  /\ isTimeReady = TRUE
  /\ dateStr = PeerDate /\ timeStr = istDateTimeParts(ServerNow).time
  /\ \E p \in Fixes :
       /\ lat = p /\ lng = p /\ address = reverseGeocode(p)
       /\ frozenLat = p /\ frozenLng = p /\ frozenAddress = reverseGeocode(p)
  /\ lastGeoReqRef = 0 /\ geos = <<>> /\ oneshots = <<>>
  /\ selfieFile = "selfie"
  /\ modal = NoModal
  /\ resolver = NoResolver
  /\ syncs = <<>>
  /\ \E o \in Offices : \E e \in Employees :
       /\ officeId = o /\ employeeId = e
       /\ submits = {[EarlierCheckIn(sid, "upload", o, e) EXCEPT !.useAttachment = FALSE] :
                       sid \in {0, 1}}
  /\ nextSid = 2
  /\ records = <<>>
  /\ peerCount = 0
  /\ acked = {}

\* the user clicks Submit again only when no request is waiting
NextStale ==
  \/ FlowSteps
  \/ submits = {} /\ OnSubmit

SpecStale == InitStale /\ [][NextStale]_vars

----------------------------------------------------------------------------
(* Specification: location.  The settled component with its organisation      *)
(* loaded; the device moves between two positions, the position watch and its *)
(* reverse-geocode calls run while the user selects and deselects the office, *)
(* and the clock advances                                                     *)

InitLoc ==
  /\ InitFlow
  /\ ESPO_BASEURL /\ ESPO_API_KEY
  /\ timeSync # NoSync
  /\ offices = Offices

NextLoc ==
  \/ Advance
  \/ \E p \in MovingFixes : WatchFix(p)
  \/ \E i \in 1..Len(geos) : \E ok \in BOOLEAN : WatchGeoDone(i, ok)
  \/ \E i \in 1..Len(oneshots) : \E p \in MovingFixes : OneshotFix(i, p)
  \/ \E i \in 1..Len(oneshots) : OneshotError(i)
  \/ \E i \in 1..Len(oneshots) : \E ok \in BOOLEAN : OneshotGeoDone(i, ok)
  \/ \E val \in Offices \cup {NoId} : SelectOffice(val)

SpecLoc == InitLoc /\ [][NextLoc]_vars

----------------------------------------------------------------------------
(* Specification: clock.  The component from its mount: the sync runs, the    *)
(* interval timers, the refresh button, time passing on the monotonic clock   *)
(* and the user setting the device clock                                      *)

NextClock ==
  \/ \E ok \in BOOLEAN : LoadOrgDone(ok)
  \/ Advance
  \/ ClockChange
  \/ Tick
  \/ SyncTimer
  \/ \E i \in 1..Len(syncs) : \E s \in 0..MaxPerf : SyncProviderOk(i, s)
  \/ \E i \in 1..Len(syncs) : SyncProviderFail(i)
  \/ \E i \in 1..Len(syncs) : SyncSleepDone(i)
  \/ RefreshAll

SpecClock == Init /\ [][NextClock]_vars

----------------------------------------------------------------------------
(* Specification: the freeze.  The component from its mount, with the first   *)
(* sync run and the org load still in flight: the user selects an office and  *)
(* an employee, captures a selfie and clicks submit while time passes, the    *)
(* clock ticks and sync runs come and go; the position comes from the fix     *)
(* requested at the freeze, and the requests of a submit stay in flight       *)

NextFreeze ==
  \/ \E ok \in BOOLEAN : LoadOrgDone(ok)
  \/ Advance
  \/ Tick
  \/ SyncTimer
  \/ \E i \in 1..Len(syncs) : \E s \in 0..MaxPerf : SyncProviderOk(i, s)
  \/ \E i \in 1..Len(syncs) : SyncProviderFail(i)
  \/ \E i \in 1..Len(syncs) : SyncSleepDone(i)
  \/ \E i \in 1..Len(oneshots) : \E p \in Fixes : OneshotFix(i, p)
  \/ \E i \in 1..Len(oneshots) : OneshotError(i)
  \/ \E i \in 1..Len(oneshots) : \E ok \in BOOLEAN : OneshotGeoDone(i, ok)
  \/ \E val \in Offices \cup {NoId} : SelectOffice(val)
  \/ \E val \in staff \cup {NoId} : SelectEmployee(val)
  \/ CaptureSelfie
  \/ \E ok \in BOOLEAN : ResolverDone(ok)
  \/ onModalOk
  \/ OnSubmit

\* the store is configured, the browser holds no cached sync and the device
\* clock is a day ahead
InitFreeze ==
  Init /\ ESPO_BASEURL /\ ESPO_API_KEY /\ cache = NoCache /\ wallBase = ServerEpoch0 + DayMs

SpecFreeze == InitFreeze /\ [][NextFreeze]_vars

----------------------------------------------------------------------------
(* Specification: the early selection.  The component from its mount, with    *)
(* the first sync run and the org load still in flight and no time passing:   *)
(* the user may select the office before the sync run answers, and the submit *)
(* runs to its end with requests that are answered                            *)

NextEarly ==
  \/ \E ok \in BOOLEAN : LoadOrgDone(ok)
  \/ \E i \in 1..Len(syncs) : \E s \in 0..MaxPerf : SyncProviderOk(i, s)
  \/ \E i \in 1..Len(oneshots) : \E p \in Fixes : OneshotFix(i, p)
  \/ \E i \in 1..Len(oneshots) : OneshotError(i)
  \/ \E i \in 1..Len(oneshots) : \E ok \in BOOLEAN : OneshotGeoDone(i, ok)
  \/ \E val \in Offices \cup {NoId} : SelectOffice(val)
  \/ \E val \in staff \cup {NoId} : SelectEmployee(val)
  \/ CaptureSelfie
  \/ \E ok \in BOOLEAN : ResolverDone(ok)
  \/ onModalOk
  \/ OnSubmit
  \/ \E s \in submits : \E out \in {"ok", "fail"} : UploadDone(s, out)
  \/ \E s \in submits : \E ok \in BOOLEAN : FindDone(s, ok)
  \/ \E s \in submits : \E out \in {"ok", "fail"} : CreateDone(s, out)
  \/ \E s \in submits : \E out \in {"ok", "fail"} : UpdateDone(s, out)
  \/ \E s \in submits : \E ok \in BOOLEAN : RefetchDone(s, ok)

SpecEarly == InitFreeze /\ [][NextEarly]_vars

----------------------------------------------------------------------------
(* Specification: the cached clock.  The component is mounted on a device     *)
(* whose clock reads any instant up to MaxCacheMs and whose local storage may *)
(* hold any sync cache, written before or after that instant; no sync run     *)
(* succeeds, so the pair stays the one the init effect took from the cache    *)

CacheRange ==
  {NoCache} \cup {[serverEpochMs |-> e, savedAtMs |-> w] : e \in 0..MaxCacheMs,
                                                           w \in 0..MaxCacheMs}

InitCache == InitWith(0..MaxCacheMs, CacheRange)

NextCache ==
  \/ \E ok \in BOOLEAN : LoadOrgDone(ok)
  \/ Advance
  \/ Tick
  \/ \E i \in 1..Len(syncs) : SyncProviderFail(i)
  \/ \E i \in 1..Len(syncs) : SyncSleepDone(i)

SpecCache == InitCache /\ [][NextCache]_vars

----------------------------------------------------------------------------
(* Specification: the office.  The settled component with an empty store: the *)
(* user selects and deselects the office, presses the refresh button, and     *)
(* checks in with requests that succeed, so that every way in and out of the  *)
(* frozen state is taken                                                      *)

NextOffice ==
  \/ \E ok \in BOOLEAN : LoadOrgDone(ok)
  \/ \E i \in 1..Len(syncs) : \E s \in 0..MaxPerf : SyncProviderOk(i, s)
  \/ \E i \in 1..Len(oneshots) : \E p \in Fixes : OneshotFix(i, p)
  \/ \E i \in 1..Len(oneshots) : OneshotError(i)
  \/ \E i \in 1..Len(oneshots) : \E ok \in BOOLEAN : OneshotGeoDone(i, ok)
  \/ \E val \in Offices \cup {NoId} : SelectOffice(val)
  \/ \E val \in staff \cup {NoId} : SelectEmployee(val)
  \/ CaptureSelfie
  \/ \E ok \in BOOLEAN : ResolverDone(ok)
  \/ RefreshAll
  \/ onModalOk
  \/ OnSubmit
  \/ \E s \in submits : UploadDone(s, "ok")
  \/ \E s \in submits : FindDone(s, TRUE)
  \/ \E s \in submits : CreateDone(s, "ok")

\* the store is configured
InitOffice == InitFlow /\ ESPO_BASEURL /\ ESPO_API_KEY

SpecOffice == InitOffice /\ [][NextOffice]_vars

----------------------------------------------------------------------------
(* Properties *)

ToSet(seq) == {seq[i] : i \in 1..Len(seq)}

\* C1: with an office and an employee selected the allowed actions are exactly
\* NotStarted -> {checkin}, CheckedIn -> {lunchStart, checkout}, OnLunch ->
\* {lunchEnd, checkout}, LunchDone -> {checkout}, Completed -> {}; without a
\* selection nothing is allowed
C1_AllowedTable ==
  /\ (officeId = NoId \/ employeeId = NoId) => ToSet(allowedTypes) = {}
  /\ (officeId # NoId /\ employeeId # NoId) =>
       /\ lastAction = NULL => ToSet(allowedTypes) = {"checkin"}
       /\ lastAction = "checkin" => ToSet(allowedTypes) = {"lunchStart", "checkout"}
       /\ lastAction = "lunchStart" => ToSet(allowedTypes) = {"lunchEnd", "checkout"}
       /\ lastAction = "lunchEnd" => ToSet(allowedTypes) = {"checkout"}
       /\ lastAction = "checkout" => ToSet(allowedTypes) = {}
       /\ lastAction \in {"checkin", "lunchStart", "lunchEnd"} =>
            "checkout" \in ToSet(allowedTypes)

\* the resolver found the employee on lunch and the radios offer its actions
C1_Witness ==
  /\ officeId # NoId /\ employeeId # NoId
  /\ resolver = NoResolver
  /\ lastAction = "lunchStart"
  /\ type = "lunchEnd"

\* C2: whenever the resolver's query answers, the state it sets follows the
\* precedence checkOutAt, lunchInAt, lunchOutAt, checkInAt over the four
\* timestamps of the day's record, whatever else the record holds, and is
\* NotStarted when there is no record or no timestamp
C2_Precedence ==
  [][ResolverDone(TRUE) =>
       LET rec == findTodayRecord(resolver.employeeName, resolver.attendanceDate)
           has(f) == rec # NoRec /\ rec[f] # EMPTY
       IN /\ has("checkOutAt") => lastAction' = "checkout"
          /\ (~has("checkOutAt") /\ has("lunchInAt")) => lastAction' = "lunchEnd"
          /\ (~has("checkOutAt") /\ ~has("lunchInAt") /\ has("lunchOutAt")) =>
               lastAction' = "lunchStart"
          /\ (~has("checkOutAt") /\ ~has("lunchInAt") /\ ~has("lunchOutAt")
                /\ has("checkInAt")) => lastAction' = "checkin"
          /\ (~has("checkOutAt") /\ ~has("lunchInAt") /\ ~has("lunchOutAt")
                /\ ~has("checkInAt")) => lastAction' = NULL]_vars

\* a record with check-in, lunch end and no lunch start was resolved to LunchDone
C2_Witness ==
  /\ Len(records) = 1
  /\ records[1].checkInAt # EMPTY /\ records[1].lunchInAt # EMPTY
  /\ records[1].lunchOutAt = EMPTY /\ records[1].checkOutAt = EMPTY
  /\ resolver = NoResolver
  /\ lastAction = "lunchEnd"

\* submit s leaves the set of waiting requests in this step
Leaves(s) == s \in submits /\ \A t \in submits' : t.sid # s.sid

\* submit s goes on to a create or an update request in this step
Mutates(s) ==
  /\ s \in submits
  /\ \E t \in submits' : t.sid = s.sid /\ t.pc \in {"create", "update"} /\ s.pc # t.pc

\* C3: when the record query of a submit finds the day's record with checkOutAt
\* set, the submit is rejected with the already-done message, goes on to no
\* create or update request and leaves the store as it is
C3_RejectedAfterCheckOut ==
  [][\A s \in submits :
       (/\ FindDone(s, TRUE)
        /\ findTodayRecord(s.employeeName, s.date) # NoRec
        /\ findTodayRecord(s.employeeName, s.date).checkOutAt # EMPTY)
       => /\ Leaves(s)
          /\ modal'.open /\ modal'.message = <<"already-done", s.type>>
          /\ records' = records]_vars

\* C4: once the dialog has announced the success of action A for an employee and
\* a date, a submit of A for them clicked afterwards is rejected with the
\* already-done message when its record query answers, and no request of such a
\* submit writes the store
C4_NoRepeat ==
  [][\A s \in submits :
       (\E a \in acked : /\ a.employeeName = s.employeeName /\ a.date = s.date
                         /\ a.type = s.type /\ a.started < s.sid)
       => /\ FindDone(s, TRUE) =>
               (Leaves(s) /\ modal'.open /\ modal'.message = <<"already-done", s.type>>)
          /\ ~Mutates(s)
          /\ (s.pc \in {"create", "update"} /\ s \notin submits') => records' = records]_vars

\* C5: with one session the store never holds two records of the same employee
\* and date
C5_OneRecordPerDay ==
  \A i, j \in 1..Len(records) :
    (records[i].employeeName = records[j].employeeName
       /\ records[i].attendanceDate = records[j].attendanceDate) => i = j

\* office, employee, an allowed action, a location and a selfie are there
OtherPreconditions ==
  /\ officeId # NoId /\ employeeId # NoId
  /\ Includes(allowedTypes, type)
  /\ displayLat # NoPos /\ displayLng # NoPos
  /\ selfieFile # NULL

\* C6: while no time sync has succeeded and none is cached, a click on Submit
\* with every other precondition met opens the time-syncing message and starts
\* no request
C6_BlockedWithoutTrustedTime ==
  [][(timeSync = NoSync /\ cache = NoCache /\ OtherPreconditions /\ OnSubmit)
       => /\ modal'.open /\ modal'.message = <<"time-syncing", "">>
          /\ submits' = submits
          /\ records' = records]_vars

\* the first precondition missing, in the order office, employee, allowed action,
\* clock, location, selfie; "" when none is
FirstMissing ==
  IF officeId = NoId THEN "select-office"
  ELSE IF employeeId = NoId THEN "select-employee"
  ELSE IF ~Includes(allowedTypes, type) THEN "not-allowed"
  ELSE IF ~isTimeReady THEN "time-syncing"
  ELSE IF displayLat = NoPos \/ displayLng = NoPos THEN "location-missing"
  ELSE IF selfieFile = NULL THEN "take-selfie"
  ELSE ""

\* C7: a click on Submit with preconditions missing opens the message of the
\* first one missing in the order office, employee, allowed action, clock,
\* location, selfie
C7_FirstMissingReported ==
  [][(OnSubmit /\ ESPO_BASEURL /\ ESPO_API_KEY /\ FirstMissing # "")
       => (modal'.open /\ modal'.message = <<FirstMissing, "">>)]_vars

\* C8: a click on Submit with the configuration or a precondition missing starts
\* no request and changes nothing but the dialog
C8_ValidationTouchesNothing ==
  [][(OnSubmit /\ (~ESPO_BASEURL \/ ~ESPO_API_KEY \/ FirstMissing # ""))
       => /\ modal'.open
          /\ UNCHANGED <<envVars, offices, orgLoading, locVars, syncs, submits, nextSid,
                         records, peerCount, acked>>
          /\ UNCHANGED <<officeId, employeeId, type, lastAction, isTimeFrozen,
                         isLocationFrozen, timeSync, isTimeReady, dateStr, timeStr, lat,
                         lng, address, frozenLat, frozenLng, frozenAddress, selfieFile,
                         resolver>>]_vars

\* every request of a submit follows its selfie upload: a submit starts at the
\* upload, its record query starts when the upload answers, its create or update
\* when the query answers
UploadFirst ==
  \A t \in submits' :
    \/ t \in submits
    \/ t.pc = "upload" /\ \A s \in submits : s.sid # t.sid
    \/ \E s \in submits :
         /\ s.sid = t.sid
         /\ \/ s.pc = "upload" /\ t.pc = "find"
            \/ s.pc = "find" /\ t.pc \in {"create", "update"}
            \/ s.pc = "update" /\ t.pc = "refetch"

\* this session changes the store only when the create or update request of one
\* of its submits is answered
OnlyRequestsWrite ==
  (records' # records /\ peerCount' = peerCount)
    => \E s \in submits : s.pc \in {"create", "update"} /\ s \notin submits'

C10_FreshQueryDecides ==
  [][/\ UploadFirst
     /\ OnlyRequestsWrite
     /\ \A s \in submits :
          LET rec == findTodayRecord(s.employeeName, s.date)
          IN /\ Mutates(s) => /\ FindDone(s, TRUE)
                              /\ \E t \in submits' :
                                   /\ t.sid = s.sid
                                   /\ (t.pc = "create") = (rec = NoRec)
                                   /\ t.pc = "update" =>
                                        /\ rec # NoRec
                                        /\ rec[fieldByType(s.type)] = EMPTY
                                        /\ t.existing = rec.id
             /\ (FindDone(s, TRUE) /\ rec # NoRec /\ rec[fieldByType(s.type)] # EMPTY)
                  => (Leaves(s) /\ modal'.message = <<"already-done", s.type>>)
             /\ (FindDone(s, TRUE) /\ rec # NoRec /\ rec[fieldByType(s.type)] = EMPTY)
                  => Mutates(s)]_vars

\* the component still holds CheckedIn, another session has written the lunch
\* start, and a submit of lunchStart was rejected by its own query
C10_Witness ==
  /\ lastAction = "checkin"
  /\ modal.open /\ modal.message = <<"already-done", "lunchStart">>
  /\ \E i \in 1..Len(records) : records[i].lunchOutAt # EMPTY

\* C11: when the record query of a submit finds no record of the employee and
\* the date, a check-in goes on to its create request; any other action is
\* rejected with the do-checkin-first message and goes on to no create or
\* update request, although the action was allowed when Submit was clicked; no
\* create request is ever made for another action than check-in
C11_OnlyCheckInCreates ==
  [][/\ \A t \in submits' : t.pc = "create" => t.type = "checkin"
     /\ \A s \in submits :
          (FindDone(s, TRUE) /\ findTodayRecord(s.employeeName, s.date) = NoRec)
          => IF s.type = "checkin"
             THEN \E t \in submits' : t.sid = s.sid /\ t.pc = "create"
             ELSE /\ Leaves(s)
                  /\ modal'.open /\ modal'.message = <<"checkin-first", s.type>>
                  /\ records' = records]_vars

\* the component holds CheckedIn for an employee who has no record of the day,
\* and the lunch start it allowed was rejected by the record query
C11_Witness ==
  /\ lastAction = "checkin"
  /\ employeeId # NoId
  /\ findTodayRecord(employeeId, dateStr) = NoRec
  /\ modal.open /\ modal.message = <<"checkin-first", "lunchStart">>

\* C12: when the record query of a submit finds the day's record with the
\* timestamp of the submitted action already set, the submit ends with the
\* already-done message, the store is left as it is, and no update request is
\* started for a timestamp that the query saw set
C12_PopulatedNeverOverwritten ==
  [][\A s \in submits :
       LET rec == findTodayRecord(s.employeeName, s.date)
       IN /\ (FindDone(s, TRUE) /\ rec # NoRec /\ rec[fieldByType(s.type)] # EMPTY)
               => /\ Leaves(s)
                  /\ modal'.open /\ modal'.message = <<"already-done", s.type>>
                  /\ records' = records
          /\ (s.pc = "find" /\ \E t \in submits' : t.sid = s.sid /\ t.pc = "update")
               => (rec # NoRec /\ rec[fieldByType(s.type)] = EMPTY)]_vars

\* the component still holds CheckedIn, the session on the other device has
\* checked the employee out, and the check-out submitted here was rejected: the
\* record keeps the other session's timestamp
C12_Witness ==
  /\ lastAction = "checkin"
  /\ modal.open /\ modal.message = <<"already-done", "checkout">>
  /\ \E i \in 1..Len(records) :
       /\ records[i].employeeName = employeeId
       /\ records[i].checkOutAt # EMPTY
       /\ records[i].checkOutAt[3] < 0

\* C13: every record of the store has a lunch start when it has a lunch end,
\* and a check-in when it has any timestamp
C13_OrderedTimestamps ==
  \A i \in 1..Len(records) :
    /\ records[i].lunchInAt # EMPTY => records[i].lunchOutAt # EMPTY
    /\ (records[i].lunchOutAt # EMPTY \/ records[i].lunchInAt # EMPTY
          \/ records[i].checkOutAt # EMPTY) => records[i].checkInAt # EMPTY

\* C14: in state NotStarted with check-in selected, the clock ready, a location
\* and a selfie, a click on Submit starts a submit; when its upload answers it
\* queries the record, when the query finds no record it goes on to the create
\* request, and when the create is answered the store holds one more record, of
\* that employee and date, with checkInAt set and lunchOutAt, lunchInAt and
\* checkOutAt empty, and the component holds CheckedIn
C14_CheckInCreatesRecord ==
  [][/\ (/\ OnSubmit
         /\ ESPO_BASEURL /\ ESPO_API_KEY
         /\ lastAction = NULL /\ type = "checkin" /\ isTimeReady
         /\ OtherPreconditions)
        => (\E t \in submits' : t \notin submits /\ t.pc = "upload" /\ t.type = "checkin"
                                  /\ t.employeeName = employeeId /\ t.date = dateStr)
     /\ \A s \in submits :
          /\ (s.type = "checkin" /\ UploadDone(s, "ok"))
               => \E t \in submits' : t.sid = s.sid /\ t.pc = "find"
          /\ (s.type = "checkin" /\ FindDone(s, TRUE)
                /\ findTodayRecord(s.employeeName, s.date) = NoRec)
               => \E t \in submits' : t.sid = s.sid /\ t.pc = "create"
          /\ CreateDone(s, "ok")
               => /\ Len(records') = Len(records) + 1
                  /\ SubSeq(records', 1, Len(records)) = records
                  /\ LET new == records'[Len(records')]
                     IN /\ new.employeeName = s.employeeName
                        /\ new.attendanceDate = s.date
                        /\ new.checkInAt # EMPTY
                        /\ new.lunchOutAt = EMPTY /\ new.lunchInAt = EMPTY
                        /\ new.checkOutAt = EMPTY
                  /\ lastAction' = "checkin"]_vars

\* the first check-in of the day went through: the store holds its record and
\* the component holds CheckedIn
C14_Witness ==
  /\ Len(records) = 1
  /\ records[1].checkInAt # EMPTY /\ records[1].checkOutAt = EMPTY
  /\ records[1].lunchOutAt = EMPTY /\ records[1].lunchInAt = EMPTY
  /\ lastAction = "checkin"
  /\ selfieFile = NULL
  /\ submits = {}
  /\ modal.open /\ modal.message = <<"submitted", "checkin">>

\* the record has its check-in and nothing else
OnlyCheckedIn(rec) ==
  /\ rec # NoRec
  /\ rec.checkInAt # EMPTY
  /\ rec.lunchOutAt = EMPTY /\ rec.lunchInAt = EMPTY /\ rec.checkOutAt = EMPTY

\* C15: a check-out submitted when the day's record has only checkInAt goes on,
\* when its record query answers, to an update of that record; the answered
\* update sets checkOutAt of that record and leaves the other records alone;
\* and when the record query after the update answers, the component holds
\* Completed and allows no action
C15_CheckOutCompletes ==
  [][\A s \in submits :
       s.type = "checkout" =>
         /\ (FindDone(s, TRUE) /\ OnlyCheckedIn(findTodayRecord(s.employeeName, s.date)))
              => \E t \in submits' :
                   /\ t.sid = s.sid /\ t.pc = "update"
                   /\ t.existing = findTodayRecord(s.employeeName, s.date).id
         /\ UpdateDone(s, "ok")
              => /\ Len(records') = Len(records)
                 /\ records'[s.existing].checkOutAt # EMPTY
                 /\ \A i \in 1..Len(records) : i # s.existing => records'[i] = records[i]
                 /\ \E t \in submits' : t.sid = s.sid /\ t.pc = "refetch"
         /\ RefetchDone(s, TRUE)
              => /\ lastAction' = "checkout"
                 /\ allowedTypesOf(officeId', employeeId', lastAction') = <<>>]_vars

\* C16: a fix of the position watch and the answer to one of its
\* reverse-geocode calls, whether the call started before or after the freeze,
\* leave the frozen latitude, longitude and address as they are; and every
\* selection of an office made while a live fix is held, the first or one that
\* follows a deselection, freezes exactly the live latitude, longitude and
\* address held at that moment
C16_FrozenSnapshotKept ==
  [][/\ \A p \in MovingFixes :
          WatchFix(p) => UNCHANGED <<frozenLat, frozenLng, frozenAddress, isLocationFrozen>>
     /\ \A i \in 1..Len(geos) : \A ok \in BOOLEAN :
          WatchGeoDone(i, ok) =>
            UNCHANGED <<frozenLat, frozenLng, frozenAddress, isLocationFrozen>>
     /\ \A val \in Offices :
          (SelectOffice(val) /\ lat # NoPos /\ lng # NoPos)
          => /\ isLocationFrozen'
             /\ frozenLat' = lat /\ frozenLng' = lng /\ frozenAddress' = address
             /\ displayLat' = lat /\ displayLng' = lng /\ displayAddress' = address]_vars

\* the location was frozen at the second position; since then a fix of the
\* watch has come in and the answer to a reverse-geocode call started before the
\* freeze has changed the live address, and the frozen snapshot still holds the
\* second position
C16_Witness ==
  /\ isLocationFrozen
  /\ frozenLat = 2 /\ frozenLng = 2 /\ frozenAddress = NoAddr
  /\ address = reverseGeocode(2)
  /\ \E i \in 1..Len(geos) : geos[i].frozen /\ geos[i].la = 1

\* C17: when the answer to the reverse-geocode call of a fix arrives after a
\* later fix has come in, it is discarded: the live address stays as it is; and
\* the answer to the call of the latest fix, made while the location is live,
\* becomes the live address
C17_LatestGeocodeWins ==
  [][\A i \in 1..Len(geos) : \A ok \in BOOLEAN :
       WatchGeoDone(i, ok) =>
         /\ geos[i].superseded => address' = address
         /\ (~geos[i].superseded /\ ~geos[i].frozen)
              => address' = (IF ok THEN reverseGeocode(geos[i].la) ELSE NoAddr)]_vars

\* C18: as long as no sync replaces the TimeSync pair, trusted now moves in
\* every step by exactly what the monotonic clock moves, and a change of the
\* device clock leaves it where it is
C18_TrustedNowFollowsMonotonicClock ==
  [][(timeSync # NoSync /\ timeSync' = timeSync)
       => /\ getTrustedNow # NoMs /\ getTrustedNow' # NoMs
          /\ getTrustedNow' - getTrustedNow = perf' - perf
          /\ wallBase' # wallBase => getTrustedNow' = getTrustedNow]_vars

\* the sync was answered at mark 0 while the device clock was right; since then
\* the device clock was set a day ahead and the monotonic clock has moved one
\* unit: trusted now is one unit after the synced time
C18_Witness ==
  /\ rev = 2
  /\ timeSync # NoSync /\ timeSync.perfAtSync = 0
  /\ cache.serverEpochMs = timeSync.serverEpochMs /\ cache.savedAtMs = ServerEpoch0
  /\ wallBase = ServerEpoch0 + DayMs
  /\ perf = 1
  /\ getTrustedNow = timeSync.serverEpochMs + 1

\* C19: every submit carries the date and the time of the time sources, whatever
\* the device clock shows (no time passes in the submit flow, the sources stay
\* at their first reading; the device clock of revision 2 runs a day ahead)
C19_StampFreeOfDeviceClock ==
  \A s \in submits :
    /\ s.date = istDateTimeParts(ServerNow).date
    /\ s.time = istDateTimeParts(ServerNow).time

\* C20: once a sync has succeeded the TimeSync pair is never cleared: a sync
\* attempt that fails, a round that is given up and the refresh leave the pair
\* as it is, only the answer of a time source replaces it, and trusted now stays
\* available
C20_PairSurvivesFailedSync ==
  [][timeSync # NoSync
       => /\ timeSync' # NoSync
          /\ timeSync'.serverEpochMs # NoMs /\ timeSync'.perfAtSync # NoMs
          /\ getTrustedNow' # NoMs
          /\ (\E i \in 1..Len(syncs) : SyncProviderFail(i) \/ SyncSleepDone(i))
               => timeSync' = timeSync
          /\ timeSync' # timeSync
               => \E i \in 1..Len(syncs) : \E s \in 0..MaxPerf : SyncProviderOk(i, s)]_vars

\* revision 1 after a first sync that succeeded and a later run that failed on
\* every source in every round: the run is over, the pair is still there
C20_Witness ==
  /\ rev = 1
  /\ timeSync # NoSync
  /\ getTrustedNow # NoMs
  /\ syncs = <<>>
  /\ ~isTimeReady

\* C21: a sync run starts at the first source (the record store) in round 1;
\* a source that answers ends the run at once with the clock ready; a source that
\* fails hands over to the next source of the round, the last one to the pause
\* before the next round, and the third round that fails ends the run with the
\* clock marked not ready; no run is ever beyond round 3 or source 3
C21_SyncRunBounded ==
  [][/\ \A j \in 1..Len(syncs') :
          syncs'[j].attempt \in 1..Attempts /\ syncs'[j].prov \in 1..Providers
     /\ Len(syncs') > Len(syncs)
          => /\ syncs'[Len(syncs')].attempt = 1 /\ syncs'[Len(syncs')].prov = 1
             /\ syncs'[Len(syncs')].pc = "call"
     /\ \A i \in 1..Len(syncs) :
          /\ (\E s \in 0..MaxPerf : SyncProviderOk(i, s))
               => (syncs' = RemoveAt(syncs, i) /\ isTimeReady' /\ timeSync' # NoSync)
          /\ SyncProviderFail(i)
               => IF syncs[i].prov < Providers
                  THEN syncs' = [syncs EXCEPT ![i].prov = @ + 1, ![i].t0 = perf]
                  ELSE \/ syncs' = [syncs EXCEPT ![i].pc = "sleep"]
                       \/ syncs' = RemoveAt(syncs, i) /\ ~isTimeReady'
          /\ SyncSleepDone(i)
               => IF syncs[i].attempt < Attempts
                  THEN syncs' = [syncs EXCEPT ![i].attempt = @ + 1, ![i].prov = 1,
                                              ![i].pc = "call", ![i].t0 = perf]
                  ELSE syncs' = RemoveAt(syncs, i) /\ ~isTimeReady']_vars

\* C22: selecting an office renders the trusted time of that moment; as long as
\* that office stays selected no step (a tick, the end of a sync run, time
\* passing) changes the displayed date and time, and a submit click takes
\* exactly the displayed date and time into its requests
C22_FrozenClockKept ==
  [][/\ (officeId # NoId /\ officeId' = officeId)
          => (dateStr' = dateStr /\ timeStr' = timeStr)
     /\ \A val \in Offices :
          (SelectOffice(val) /\ getTrustedNow # NoMs)
             => /\ dateStr' = istDateTimeParts(getTrustedNow).date
                /\ timeStr' = istDateTimeParts(getTrustedNow).time
     /\ \A s \in submits' \ submits : s.date = dateStr /\ s.time = timeStr]_vars

\* a submit is in flight with the time of the server frozen at the selection,
\* while a sync run that ended after the freeze has moved the trusted time on
C22_Witness ==
  /\ officeId # NoId /\ isTimeFrozen /\ dateStr = istDateTimeParts(ServerNow).date
  /\ timeSync # NoSync /\ timeSync.perfAtSync = perf /\ perf > 0
  /\ istDateTimeParts(getTrustedNow).time # timeStr
  /\ \E s \in submits : s.date = dateStr /\ s.time = timeStr

\* C23: a submit click takes the frozen latitude, longitude and address (a real
\* position, not the built-in default) into its requests, keeps them through
\* its steps, and the record a create or update writes carries exactly them
C23_FrozenLocationSubmitted ==
  [][/\ \A s \in submits' :
          IF s.sid \in {x.sid : x \in submits}
          THEN \A x \in submits :
                 x.sid = s.sid => (s.lat = x.lat /\ s.lng = x.lng /\ s.notes = x.notes)
          ELSE /\ isLocationFrozen /\ frozenLat # NoPos /\ frozenLng # NoPos
               /\ s.lat = frozenLat /\ s.lng = frozenLng /\ s.notes = frozenAddress
     /\ \A s \in submits : \A out \in {"ok", "lost"} :
          /\ CreateDone(s, out)
               => /\ records'[Len(records')].officeLat = s.lat
                  /\ records'[Len(records')].officeLng = s.lng
                  /\ records'[Len(records')].notes = s.notes
          /\ UpdateDone(s, out)
               => \E k \in 1..Len(records) :
                    /\ records'[k] # records[k]
                    /\ records'[k].officeLat = s.lat /\ records'[k].officeLng = s.lng
                    /\ records'[k].notes = s.notes]_vars

\* C24: selecting an office leaves no employee selected, the action on check-in,
\* no resolved state, no query in flight, no pending selfie, and time and
\* location frozen; selecting an employee leaves the action on check-in, no
\* resolved state, no pending selfie, and the resolver's query for that
\* employee and the frozen date in flight
C24_SelectionResets ==
  [][/\ \A val \in Offices :
          SelectOffice(val)
             => /\ officeId' = val /\ employeeId' = NoId /\ type' = "checkin"
                /\ lastAction' = NULL /\ resolver' = NoResolver /\ selfieFile' = NULL
                /\ isTimeFrozen' /\ isLocationFrozen'
     /\ \A val \in staff :
          SelectEmployee(val)
             => /\ employeeId' = val /\ type' = "checkin"
                /\ lastAction' = NULL /\ selfieFile' = NULL
                /\ resolver' = [employeeName |-> val, attendanceDate |-> dateStr']]_vars

\* C30: a submit that has reached its create or update request carries a real
\* date and time, and no record of the store has the placeholder as its
\* attendance date or inside one of its action timestamps
C30_NoPlaceholderSubmitted ==
  /\ \A s \in submits : s.pc \in {"create", "update"} => (s.date # DASH /\ s.time # DASH)
  /\ \A k \in 1..Len(records) :
       /\ records[k].attendanceDate # DASH
       /\ \A t \in AllTypes :
            records[k][fieldByType(t)] # EMPTY
               => /\ records[k][fieldByType(t)][1] # DASH
                  /\ records[k][fieldByType(t)][2] # DASH

\* C25: the step that ends a submit with success clears the pending selfie and
\* opens a dialog with reset-on-acknowledge; acknowledging such a dialog leaves
\* no office, no employee, the action on check-in, no resolved state, no
\* selfie and both freeze flags off, while the TimeSync pair, the geocode
\* bookkeeping of the location watch and the earlier sync runs are untouched;
\* acknowledging any other dialog only closes it
C25_AcknowledgeResets ==
  [][/\ \A s \in submits :
          (CreateDone(s, "ok") \/ RefetchDone(s, TRUE))
             => (selfieFile' = NULL /\ modal'.open /\ modal'.refreshOnOk)
     /\ (onModalOk /\ modal.refreshOnOk)
          => /\ officeId' = NoId /\ employeeId' = NoId /\ type' = "checkin"
             /\ lastAction' = NULL /\ resolver' = NoResolver /\ selfieFile' = NULL
             /\ ~isTimeFrozen' /\ ~isLocationFrozen'
             /\ timeSync' = timeSync
             /\ UNCHANGED locVars
             /\ SubSeq(syncs', 1, Len(syncs)) = syncs
     /\ (onModalOk /\ ~modal.refreshOnOk)
          => UNCHANGED <<officeId, employeeId, type, lastAction, resolver, selfieFile,
                         isTimeFrozen, isLocationFrozen, timeSync, isTimeReady, dateStr,
                         timeStr, lat, lng, address, frozenLat, frozenLng, frozenAddress,
                         locVars, syncs, submits, records>>]_vars

\* a success has been announced and acknowledged: the dialog is closed, the
\* refresh has started its sync run and the pair is still there
C25_Witness ==
  /\ acked # {} /\ ~modal.open /\ officeId = NoId /\ selfieFile = NULL
  /\ Len(syncs) > 0 /\ timeSync # NoSync

\* C26: after every step that leaves an office and an employee selected, a
\* selected action that is not in the new allowed set has been replaced by the
\* first allowed action, by check-in when nothing is allowed; so the selected
\* action is in the allowed set whenever that set is not empty; and a click on
\* an action radio selects that action only if it is in the allowed set
C26_SelectedActionAllowed ==
  [][/\ (officeId' # NoId /\ employeeId' # NoId)
          => /\ ~Includes(allowedTypes', type)
                  => type' = (IF Len(allowedTypes') > 0 THEN allowedTypes'[1]
                              ELSE "checkin")
             /\ Len(allowedTypes') > 0 => Includes(allowedTypes', type')
     /\ \A t \in AllTypes :
          SelectType(t) => (Includes(allowedTypes, t) /\ type' = t)]_vars

\* the resolver found the employee checked in, the selection moved to lunch
\* start, and the user picked check-out instead
C26_Witness ==
  /\ officeId # NoId /\ employeeId # NoId
  /\ resolver = NoResolver
  /\ lastAction = "checkin"
  /\ type = "checkout"

\* C27: every change of office, employee or date starts a new query; an answer
\* of the resolver sets the resolved state only if it was asked for the
\* selected employee and the displayed date; and the success of a submit that
\* was clicked for another office, employee or date than the ones now selected
\* leaves the resolved state as it is
C27_ResolvedStateOfSelection ==
  [][/\ (/\ <<officeId', employeeId', dateStr'>> # <<officeId, employeeId, dateStr>>
         /\ officeId' # NoId /\ employeeId' # NoId)
          => resolver' = [employeeName |-> employeeId', attendanceDate |-> dateStr']
     /\ (\E ok \in BOOLEAN : ResolverDone(ok))
          => (resolver.employeeName = employeeId /\ resolver.attendanceDate = dateStr)
     /\ \A s \in submits :
          (/\ CreateDone(s, "ok") \/ RefetchDone(s, TRUE)
           /\ <<s.officeCode, s.employeeName, s.date>> # <<officeId, employeeId, dateStr>>)
             => lastAction' = lastAction]_vars

\* submit s ends in this step with the failure dialog for err: no request of it
\* remains, the dialog does not reset on OK, and resolved state, selections and
\* pending selfie are as before
EndsWithErrorDialog(s, err) ==
  /\ Leaves(s)
  /\ nextSid' = nextSid
  /\ modal' = [open |-> TRUE, message |-> <<"submit-failed", err>>, refreshOnOk |-> FALSE]
  /\ UNCHANGED <<lastAction, officeId, employeeId, type, selfieFile>>

C29_CacheAdvanceClamped ==
  (rev = 2 /\ cache # NoCache) =>
     LET elapsed == wallBase - cache.savedAtMs
         added == timeSync.serverEpochMs - cache.serverEpochMs
     IN /\ added \in 0..DayMs
        /\ elapsed \in 0..DayMs => added = elapsed
        /\ elapsed > DayMs => added = DayMs
        /\ elapsed < 0 => added = 0

\* the device clock reads earlier than the instant the cache was written, and
\* the clock runs on the cached time unchanged
C29_Witness ==
  /\ rev = 2 /\ cache # NoCache
  /\ wallBase < cache.savedAtMs
  /\ timeSync.serverEpochMs = cache.serverEpochMs
  /\ perf > 0
  /\ dateStr = istDateTimeParts(getTrustedNow).date

\* C31: no step makes the trusted time smaller: whenever the trusted time is
\* available before and after a step, a tick of the monotonic clock or the
\* answer of a sync run included, its value after the step is at least its
\* value before
C31_TrustedNowMonotonic ==
  [][(getTrustedNow # NoMs /\ getTrustedNow' # NoMs)
       => getTrustedNow' >= getTrustedNow]_vars

\* C32: whenever the clock is marked ready the TimeSync pair is set, both
\* serverEpochMs and perfAtSync, and the trusted time can be read
C32_ReadyHasPair ==
  isTimeReady => /\ timeSync.serverEpochMs # NoMs /\ timeSync.perfAtSync # NoMs
                 /\ getTrustedNow # NoMs

C34_OfficeIffFrozen ==
  /\ (officeId # NoId) <=> isTimeFrozen
  /\ (officeId # NoId) <=> isLocationFrozen

\* the refresh that follows an acknowledged check-in has left no office
\* selected and nothing frozen
C34_Witness ==
  /\ officeId = NoId /\ ~isTimeFrozen /\ ~isLocationFrozen
  /\ frozenLat = NoPos
  /\ acked # {} /\ ~modal.open
  /\ records # <<>>

\* C35: once the frozen latitude and longitude are set, only a step that
\* changes the selected office (selection, deselection, refresh) changes them;
\* and while the office stays, the frozen address changes only with the answer
\* of the reverse-geocode call made for the frozen position
C35_FrozenSnapshotLatched ==
  [][(frozenLat # NoPos /\ frozenLng # NoPos /\ officeId' = officeId)
       => /\ frozenLat' = frozenLat /\ frozenLng' = frozenLng
          /\ frozenAddress' # frozenAddress
               => \E i \in 1..Len(oneshots) : \E ok \in BOOLEAN :
                    OneshotGeoDone(i, ok) /\ oneshots[i].la = frozenLat]_vars

\* C36: whenever a position is frozen, the frozen address is empty or is the
\* reverse-geocode result of the frozen latitude and longitude
C36_FrozenAddressOfFrozenFix ==
  (isLocationFrozen /\ frozenLat # NoPos /\ frozenLng # NoPos)
     => (frozenAddress = NoAddr \/ frozenAddress = reverseGeocode(frozenLat))

\* C37: when a submit ends with the submit-failed dialog, no timestamp in the
\* store was written by that submit: neither its create nor its update request
\* took effect
C37_FailureLeavesStore ==
  [][\A s \in submits :
       (Leaves(s) /\ modal'.open /\ modal'.message[1] = "submit-failed")
          => \A k \in 1..Len(records') : \A t \in AllTypes :
               \/ records'[k][fieldByType(t)] = EMPTY
               \/ records'[k][fieldByType(t)][3] # s.sid]_vars

\* C38: when the resolver's record query throws, the resolved state is null,
\* the dialog is left as it was and check-in is the only allowed action; when
\* the selection changes to an office and an employee while the date is the
\* placeholder, no query is started, the resolved state is null, no dialog
\* is open and check-in is the only allowed action
C38_FailedResolveIsNotStarted ==
  [][/\ ResolverDone(FALSE)
          => /\ lastAction' = NULL /\ modal' = modal
             /\ allowedTypes' = <<"checkin">>
     /\ (/\ <<officeId', employeeId', dateStr'>> # <<officeId, employeeId, dateStr>>
         /\ officeId' # NoId /\ employeeId' # NoId /\ dateStr' = DASH)
          => /\ lastAction' = NULL /\ resolver' = NoResolver /\ ~modal'.open
             /\ allowedTypes' = <<"checkin">>]_vars

\* a failed resolve has left check-in as the only allowed action although the
\* store holds the employee's check-in of the day
C38_Witness ==
  /\ officeId # NoId /\ employeeId # NoId /\ dateStr # DASH
  /\ resolver = NoResolver /\ submits = {} /\ ~modal.open
  /\ computeLastActionFromRecord(findTodayRecord(employeeId, dateStr)) = "checkin"
  /\ lastAction = NULL /\ allowedTypes = <<"checkin">>

\* C39: a click on submit that fails validation opens the validation dialog
\* without reset on OK, and any other click starts one run at the upload; the
\* step in which a run ends opens one dialog (do-checkin-first, already-done,
\* submit-failed or submitted), and that dialog resets on OK exactly when the
\* run's create request or update request had succeeded
C39_OneDialogResetIffWritten ==
  [][/\ (OnSubmit /\ SubmitError # "")
          => /\ modal' = [open |-> TRUE, message |-> <<SubmitError, "">>,
                          refreshOnOk |-> FALSE]
             /\ submits' = submits
     /\ (OnSubmit /\ SubmitError = "")
          => /\ modal' = modal
             /\ \E t \in submits' : submits' = submits \cup {t} /\ t.pc = "upload"
     /\ \A s \in submits :
          Leaves(s)
             => /\ modal'.open
                /\ modal'.message[1] \in {"checkin-first", "already-done",
                                          "submit-failed", "submitted"}
                /\ modal'.refreshOnOk <=> (CreateDone(s, "ok") \/ s.pc = "refetch")]_vars
====
